---- MODULE Spec2Model ----
(***************************************************************************)
(* Broker delegation protocol of msal-browser: the Broker                  *)
(* (BrokerClientApplication), the handshake validator                      *)
(* (BrokerHandshakeResponse.validate) and the embedded side                *)
(* (PublicClientApplication / ExperimentalClientApplication).              *)
(*                                                                         *)
(* Scheduling is the browser's: one task at a time.  A handler runs        *)
(* without interruption up to its next await; continuations of a settled   *)
(* promise (microtasks) run, in registration order, before the next        *)
(* message, timer or network completion (macrotask) is taken.              *)
(***************************************************************************)
EXTENDS Integers, Sequences, FiniteSets, TLC

\* ------------------------------------------------------------------ bounds
\* number of messages delivered to the Broker's "message" listener
MaxReq == 2
\* number of calls of BrokerClientApplication.handleRedirectPromise
MaxRedirectCalls == 2

\* number of acquisition calls the application makes on the embedded side
MaxCalls == 2

\* number of Response Cache lookups that follow one write
MaxLookups == 2

ReqIds == 1..MaxReq
CallIds == 1..MaxRedirectCalls
ApiCalls == 1..MaxCalls

\* ------------------------------------------------------- enumerations
\* InteractionType (utils/BrowserConstants), as used by the Broker
Redirect == "redirect"
Popup == "popup"
Silent == "silent"
None == "none"
\* brokerOptions.preferredInteractionType left unset
NoPref == ""
InteractionTypes == {Redirect, Popup, Silent}
PreferredTypes == {NoPref, Redirect, Popup, Silent, None}

\* BrokerMessageType
HANDSHAKE_REQUEST == "BrokerHandshakeRequest"
HANDSHAKE_RESPONSE == "BrokerHandshakeResponse"
HANDLE_REDIRECT_REQUEST == "BrokerHandleRedirectRequest"
AUTH_REQUEST == "BrokerAuthRequest"
BrokerMessageTypes == {HANDSHAKE_REQUEST, HANDSHAKE_RESPONSE, HANDLE_REDIRECT_REQUEST, AUTH_REQUEST}

\* origins the transport can report for a sender; "https://*.example" is a
\* wildcard domain pattern of an allow-list
ChildOrigin == "https://child.example"
OtherOrigin == "https://other.example"
EvilOrigin == "https://evil.test"
Origins == {ChildOrigin, OtherOrigin, EvilOrigin}
WildcardExample == "https://*.example"

\* StringUtils.matchPattern(pattern, input): exact string, or wildcard match
matchPattern(pattern, input) ==
    IF pattern = WildcardExample
    THEN input \in {ChildOrigin, OtherOrigin}
    ELSE pattern = input

\* RequestThumbprint {authority, clientId, scopes} (lines 170-174); scopes is
\* the request's scope array as the caller gave it
Thumbprint(authority, clientId, scopes) ==
    [authority |-> authority, clientId |-> clientId, scopes |-> scopes]

ScopeSet(scopes) == {scopes[i] : i \in 1..Len(scopes)}

\* mutant: thumbprints are compared with their scope arrays as given
ThumbprintsMatch_Ordered(a, b) == a = b

\* thumbprint comparison of the Response Cache: authority and client id equal
\* as strings, scopes equal as sets
ThumbprintsMatch(a, b) ==
    /\ a.authority = b.authority
    /\ a.clientId = b.clientId
    /\ ScopeSet(a.scopes) = ScopeSet(b.scopes)

Authority == "https://login.example/common"
T1 == Thumbprint(Authority, "client-1", <<"read", "write">>)
T2 == Thumbprint(Authority, "client-1", <<"mail">>)
NoThumb == Thumbprint("", "", <<>>)

\* request thumbprints that occur at the Broker
Thumbprints == {T1, T2}

VARIABLES
    \* ---- Broker (BrokerClientApplication)
    preferredInteractionType, \* config.experimental.brokerOptions.preferredInteractionType
    currentBrokerRedirectResponse, \* 0: undefined, k: the promise of call k
    hrp,            \* handleRedirectPromise calls: [pc, out, ret]; out is what
                    \* super.handleRedirectPromise settled with
    memCache,       \* browserStorage in-memory broker responses
    activeAccount,  \* getActiveAccount() # null
    req,            \* delivered messages and the position of their handler
    port,           \* per message: what was done on clientMessage.ports[0]
    net,            \* per message: acquisitions started on its behalf
    ready           \* continuations queued by a settled promise (microtasks)

VARIABLES
    \* ---- application side (PublicClientApplication / ExperimentalClientApplication)
    app,            \* the class and its configuration
    broker,         \* this.broker is set
    embeddedApp,    \* this.embeddedApp is set
    brokerConnectionEstablished, \* embeddedApp.brokerConnectionEstablished
    brokerOrigin,   \* embeddedApp.brokerOrigin
    initPromise,    \* what initializeBrokering() gave its caller
    settledBy,      \* the message that ended the handshake
    calls           \* the application's acquisition calls

VARIABLES
    \* ---- one application of BrokerHandshakeResponse.validate
    vIn, vOut

VARIABLES
    \* ---- the Response Cache alone: one write followed by lookups
    cIn,            \* the write's and the lookups' arguments, the cache before
    cCache,         \* the in-memory broker responses
    cLog            \* the write, then what each lookup returned, in order

VARIABLES
    \* ---- a StandardInteractionClient preparing one request
    sicConfig,      \* config.auth of the client
    sicRequest,     \* the AuthorizationUrlRequest handed in (modified in place)
    sicOut          \* the PKCE pairs generated and what the two methods returned

VARIABLES
    \* ---- one CryptoOps object and its key stores
    atBindingKeyOptions,    \* this._atBindingKeyOptions
    rtBindingKeyOptions,    \* this._rtBindingKeyOptions
    asymmetricKeys,         \* keys of the entries of the asymmetric key store
    symmetricKeys,          \* keys of the entries of the symmetric key store
    pendingPuts,            \* writes to the asymmetric store started, not yet settled
    cryptoLog               \* the operations called so far and how each settled

brokerVars == <<preferredInteractionType, currentBrokerRedirectResponse,
                hrp, memCache, activeAccount, req, port, net, ready>>

clientVars == <<app, broker, embeddedApp, brokerConnectionEstablished, brokerOrigin,
                initPromise, settledBy, calls>>

validateVars == <<vIn, vOut>>

cacheVars == <<cIn, cCache, cLog>>

interactionVars == <<sicConfig, sicRequest, sicOut>>

cryptoVars == <<atBindingKeyOptions, rtBindingKeyOptions, asymmetricKeys, symmetricKeys,
                pendingPuts, cryptoLog>>

vars == <<brokerVars, clientVars, validateVars, cacheVars, interactionVars, cryptoVars>>

otherThanBroker == <<clientVars, validateVars, cacheVars, interactionVars, cryptoVars>>
otherThanClient == <<brokerVars, validateVars, cacheVars, interactionVars, cryptoVars>>
otherThanValidate == <<brokerVars, clientVars, cacheVars, interactionVars, cryptoVars>>
otherThanCache == <<brokerVars, clientVars, validateVars, interactionVars, cryptoVars>>
otherThanInteraction == <<brokerVars, clientVars, validateVars, cacheVars, cryptoVars>>
otherThanCrypto == <<brokerVars, clientVars, validateVars, cacheVars, interactionVars>>

\* ------------------------------------------------------------ results
NullResult == [tag |-> "null", thumb |-> NoThumb, origin |-> "", src |-> 0]
ErrorResult(e) == [tag |-> e, thumb |-> NoThumb, origin |-> "", src |-> 0]
\* a BrokerAuthenticationResult with tokensToCache, produced by redirect call k
AppResult(t, o, k) == [tag |-> "tokensToCache", thumb |-> t, origin |-> o, src |-> k]
\* a result without tokensToCache: tokens meant for the broker itself
BrokerResult(k) == [tag |-> "brokerTokens", thumb |-> NoThumb, origin |-> "", src |-> k]

\* what super.handleRedirectPromise(hash) can settle with, for call k
RedirectOutcomes(k) ==
    {NullResult, BrokerResult(k), ErrorResult("reject")}
    \cup {AppResult(T1, ChildOrigin, k)}

\* ----------------------------------------------------------- messages
\* A MessageEvent at the Broker's listener.  wellFormed: message.data exists and
\* carries a messageType; fieldsOk: the fields the type's own validate requires
\* are present.  origin is MessageEvent.origin, set by the transport;
\* payloadOrigin is an origin written by the sender into message.data
\* (request.redirectUri), "" when the payload carries none.
Msg(wf, ty, ok, o, it, t, a) ==
    [wellFormed |-> wf, messageType |-> ty, fieldsOk |-> ok, origin |-> o,
     interactionType |-> it, thumb |-> t, account |-> a, payloadOrigin |-> ""]

\* the same message with origin value c written into its payload
WithPayloadOrigin(m, c) == [m EXCEPT !.payloadOrigin = c]

NoMsg == Msg(FALSE, "", FALSE, "", "", NoThumb, FALSE)

BrokerInbox ==
    {Msg(TRUE, AUTH_REQUEST, TRUE, o, it, T1, FALSE) :
        o \in {ChildOrigin, OtherOrigin}, it \in InteractionTypes}
    \cup {Msg(TRUE, AUTH_REQUEST, TRUE, ChildOrigin, it, T1, TRUE) : it \in InteractionTypes}
    \cup {Msg(TRUE, AUTH_REQUEST, TRUE, ChildOrigin, Silent, T2, FALSE)}
    \cup {WithPayloadOrigin(Msg(TRUE, AUTH_REQUEST, TRUE, ChildOrigin, Redirect, T1, FALSE), OtherOrigin)}
    \cup {Msg(TRUE, AUTH_REQUEST, FALSE, ChildOrigin, Silent, T1, FALSE)}
    \cup {Msg(TRUE, HANDLE_REDIRECT_REQUEST, TRUE, o, "", NoThumb, FALSE) : o \in {ChildOrigin, OtherOrigin}}
    \cup {Msg(TRUE, HANDLE_REDIRECT_REQUEST, FALSE, ChildOrigin, "", NoThumb, FALSE)}
    \cup {Msg(TRUE, HANDSHAKE_REQUEST, ok, ChildOrigin, "", NoThumb, FALSE) : ok \in BOOLEAN}
    \cup {Msg(TRUE, HANDSHAKE_RESPONSE, TRUE, ChildOrigin, "", NoThumb, FALSE)}
    \cup {Msg(TRUE, "unknown", TRUE, ChildOrigin, "", NoThumb, FALSE)}
    \cup {Msg(FALSE, "", FALSE, ChildOrigin, "", NoThumb, FALSE)}

\* the trusted domain list of the Broker's configuration (brokerOptions)
BrokerTrustedDomains == {ChildOrigin}

\* BrokerMessage.validateMessage: the message, or null (FALSE) when it has no data,
\* no messageType or a messageType outside the enumeration
validateMessage(m) == m.wellFormed /\ m.messageType \in BrokerMessageTypes

\* BrokerHandshakeRequest.validate / BrokerHandleRedirectRequest.validate /
\* BrokerAuthRequest.validate: the typed message, or null (FALSE)
validateTyped(m, ty) == m.wellFormed /\ m.messageType = ty /\ m.fieldsOk

\* mutant: an origin carried in the payload is believed
embeddedAppOrigin_FromPayload(m) ==
    IF m.payloadOrigin # "" THEN m.payloadOrigin ELSE m.origin

\* BrokerAuthRequest.validate: validMessage.embeddedAppOrigin is the origin the
\* transport observed for the sender
embeddedAppOrigin(m) == m.origin

\* -------------------------------------------------------------- ports
PostEv(type, result) == [op |-> "post", type |-> type, result |-> result]
CloseEv == [op |-> "close", type |-> "", result |-> NullResult]
\* clientPort.postMessage(x); clientPort.close()
PostAndClose(p, type, result) == p \o <<PostEv(type, result), CloseEv>>

Posts(p) == {i \in 1..Len(p) : p[i].op = "post"}
Closes(p) == {i \in 1..Len(p) : p[i].op = "close"}

\* ------------------------------------------------------ Response Cache
\* mutant: a result with tokensToCache is not stored
waitForBrokeredResponse_NoCache(cache, out) == cache

\* mutant: a write does not replace the entry of its key
setMemoryCache_NoReplace(cache, result) == cache \cup {result}

\* browserStorage.setMemoryCache(generateBrokerResponseKey(responseThumbprint), ...):
\* one entry per thumbprint key, a later write replaces the earlier one
setMemoryCache(cache, result) ==
    {x \in cache : ~ThumbprintsMatch(x.thumb, result.thumb)} \cup {result}

\* mutant: the lookup by thumbprint ignores the origin
getBrokerResponseByThumbprint_AnyOrigin(cache, t, o) ==
    IF \E x \in cache : ThumbprintsMatch(x.thumb, t)
    THEN CHOOSE x \in cache : ThumbprintsMatch(x.thumb, t)
    ELSE NullResult

\* browserStorage.getBrokerResponseByThumbprint(thumbprint, origin)
getBrokerResponseByThumbprint(cache, t, o) ==
    IF \E x \in cache : ThumbprintsMatch(x.thumb, t) /\ x.origin = o
    THEN CHOOSE x \in cache : ThumbprintsMatch(x.thumb, t) /\ x.origin = o
    ELSE NullResult

\* browserStorage.getBrokerResponseByOrigin(origin)
getBrokerResponseByOrigin(cache, o) ==
    IF \E x \in cache : x.origin = o
    THEN CHOOSE x \in cache : x.origin = o
    ELSE NullResult

\* mutant: a served entry stays in the cache
removeServed_Keep(cache, e) == cache

\* an entry is removed once it has been served
removeServed(cache, e) == cache \ {e}

\* ------------------------------------------------------------- Broker
NotProbed == [tag |-> "notProbed", thumb |-> NoThumb, origin |-> "", src |-> 0]

\* awaiting: the redirect call whose completion the handler waits or waited for,
\* until the handler ends; plan: the branch handleBrokerAuthRequest took;
\* redirectUri: the redirect URI written into the brokered request; settled: what
\* the acquisition started for the request settled with
NewReq == [msg |-> NoMsg, pc |-> "new", awaiting |-> 0, dispatched |-> "none",
           inflight |-> {}, probe |-> NotProbed, handshakeReply |-> FALSE,
           plan |-> "", redirectUri |-> "", settled |-> ""]

\* mutant: a handshake response is handled like a handshake request
Dispatch_ResponseAsRequest(m) ==
    IF ~validateMessage(m) THEN "none"
    ELSE IF m.messageType \in {HANDSHAKE_REQUEST, HANDSHAKE_RESPONSE} THEN "handshake"
    ELSE IF m.messageType = HANDLE_REDIRECT_REQUEST THEN "redirect"
    ELSE IF m.messageType = AUTH_REQUEST THEN "auth"
    ELSE "none"

\* handleBrokerMessage: the handler a message is dispatched to
Dispatch(m) ==
    IF ~validateMessage(m) THEN "none"
    ELSE IF m.messageType = HANDSHAKE_REQUEST THEN "handshake"
    ELSE IF m.messageType = HANDLE_REDIRECT_REQUEST THEN "redirect"
    ELSE IF m.messageType = AUTH_REQUEST THEN "auth"
    ELSE "none"

\* getInteractionType: the broker's preference, when set, else the message's
getInteractionType(messageInteractionType) ==
    LET brokerHasInteractionPref == preferredInteractionType # NoPref
    IN IF brokerHasInteractionPref THEN preferredInteractionType ELSE messageInteractionType

\* mutant: a cache hit does not end the handling
AuthPlan_IgnoreHit(hit, account, m) ==
    IF account \/ m.account THEN "silentRenewal"
    ELSE IF m.interactionType = Silent THEN "ssoSilent"
    ELSE getInteractionType(m.interactionType)

\* mutant: the interaction type is looked at before the account
AuthPlan_TypeFirst(hit, account, m) ==
    IF hit # NullResult THEN "cached"
    ELSE IF m.interactionType = Silent
         THEN IF account \/ m.account THEN "silentRenewal" ELSE "ssoSilent"
         ELSE getInteractionType(m.interactionType)

\* mutant: the broker's preference is applied to silent requests too
AuthPlan_PreferenceFirst(hit, account, m) ==
    IF hit # NullResult THEN "cached"
    ELSE IF account \/ m.account THEN "silentRenewal"
    ELSE IF getInteractionType(m.interactionType) = Silent THEN "ssoSilent"
    ELSE getInteractionType(m.interactionType)

\* handleBrokerAuthRequest after the barrier: which branch handles the request.
\* hit: the cache probe's result; account: the active account is set
AuthPlan(hit, account, m) ==
    IF hit # NullResult THEN "cached"
    ELSE IF account \/ m.account THEN "silentRenewal"
    ELSE IF m.interactionType = Silent THEN "ssoSilent"
    ELSE getInteractionType(m.interactionType)

PendingCalls == {k \in CallIds : hrp[k].pc = "pending"}

\* requests suspended on the promise of call k, in arrival order
Waiters(k) ==
    SelectSeq([i \in ReqIds |-> i], LAMBDA i : req[i].pc = "await" /\ req[i].awaiting = k)

\* handleBrokerRedirectResponse after the barrier (lines 135-151)
RedirectRespond(r, q) ==
    LET e == getBrokerResponseByOrigin(memCache, q.msg.origin)
    IN /\ req' = [req EXCEPT ![r] = [q EXCEPT !.pc = "done", !.awaiting = 0, !.probe = e]]
       /\ port' = [port EXCEPT ![r] = PostAndClose(@, "AuthResponse", e)]
       /\ memCache' = removeServed(memCache, e)
       /\ UNCHANGED net

\* mutant: the embedded app is not told before the request is prepared
RedirectNotice_Skipped(p) == p

\* brokeredRedirectRequest: the port after the redirect notification (lines 248-251)
RedirectNotice(p) == PostAndClose(p, "RedirectResponse", NullResult)

\* brokeredRedirectRequest (lines 245-271)
BrokeredRedirect(r, q0) ==
    LET notified == RedirectNotice(port[r])
        q == [q0 EXCEPT !.redirectUri = embeddedAppOrigin(q0.msg)]
    IN \/ \* the request is initialized and the navigation started
          /\ port' = [port EXCEPT ![r] = notified]
          /\ net' = [net EXCEPT ![r] = Append(@, "redirect")]
          /\ req' = [req EXCEPT ![r] = [q EXCEPT !.pc = "done", !.awaiting = 0]]
       \/ \* initializeBrokeredRequest throws (request.state cannot be parsed): catch
          /\ port' = [port EXCEPT ![r] = PostAndClose(notified, "AuthResponse", ErrorResult("error"))]
          /\ req' = [req EXCEPT ![r] = [q EXCEPT !.pc = "done", !.awaiting = 0]]
          /\ UNCHANGED net

\* brokeredPopupRequest / brokeredSsoSilentRequest up to their await
\* (lines 279-290, 309-320); flow is "popup" or "iframe"
BrokeredStart(r, q0, flow) ==
    LET q == [q0 EXCEPT !.redirectUri = embeddedAppOrigin(q0.msg)]
    IN \/ /\ net' = [net EXCEPT ![r] = Append(@, flow)]
          /\ req' = [req EXCEPT ![r] = [q EXCEPT !.pc = flow]]
          /\ UNCHANGED port
       \/ \* initializeBrokeredRequest throws: catch
          /\ port' = [port EXCEPT ![r] = PostAndClose(@, "AuthResponse", ErrorResult("error"))]
          /\ req' = [req EXCEPT ![r] = [q EXCEPT !.pc = "done", !.awaiting = 0]]
          /\ UNCHANGED net

\* handleBrokerAuthRequest after the barrier (lines 169-203)
AuthProceed(r, q0) ==
    LET hit == getBrokerResponseByThumbprint(memCache, q0.msg.thumb, embeddedAppOrigin(q0.msg))
        plan == AuthPlan(hit, activeAccount, q0.msg)
        q == [q0 EXCEPT !.probe = hit, !.plan = plan]
    IN \/ /\ plan = "cached"
          /\ req' = [req EXCEPT ![r] = [q EXCEPT !.pc = "done", !.awaiting = 0]]
          /\ port' = [port EXCEPT ![r] = PostAndClose(@, "AuthResponse", hit)]
          /\ memCache' = removeServed(memCache, hit)
          /\ UNCHANGED net
       \/ /\ plan = "silentRenewal"
          /\ net' = [net EXCEPT ![r] = Append(@, "refreshToken")]
          /\ req' = [req EXCEPT ![r] = [q EXCEPT !.pc = "refreshToken",
                                                 !.redirectUri = embeddedAppOrigin(q.msg)]]
          /\ UNCHANGED <<port, memCache>>
       \/ /\ plan = "ssoSilent"
          /\ BrokeredStart(r, q, "iframe")
          /\ UNCHANGED memCache
       \/ /\ plan = Popup
          /\ BrokeredStart(r, q, "popup")
          /\ UNCHANGED memCache
       \/ /\ plan = Redirect
          /\ BrokeredRedirect(r, q)
          /\ UNCHANGED memCache
       \/ \* interactiveBrokerRequest: Silent, None, default: logged, nothing is posted
          /\ plan \in {Silent, None}
          /\ req' = [req EXCEPT ![r] = [q EXCEPT !.pc = "done", !.awaiting = 0]]
          /\ UNCHANGED <<port, net, memCache>>

\* the barrier of both handlers (lines 131-133, 165-167), then the handler
AfterValidation(r, q) ==
    IF currentBrokerRedirectResponse # 0
    THEN /\ req' = [req EXCEPT ![r] =
                IF hrp[currentBrokerRedirectResponse].pc = "pending"
                THEN [q EXCEPT !.pc = "await", !.awaiting = currentBrokerRedirectResponse]
                ELSE \* the stored promise has rejected: the await throws
                     [q EXCEPT !.pc = "threw", !.inflight = {}]]
         /\ UNCHANGED <<port, net, memCache>>
    ELSE LET q1 == [q EXCEPT !.inflight = {}]
         IN IF q.dispatched = "redirect" THEN RedirectRespond(r, q1) ELSE AuthProceed(r, q1)

\* handleBrokerMessage (lines 87-105) for the next message m, with the handler
\* it dispatches to, up to that handler's first suspension
HandleBrokerMessage(r, m) ==
    /\ ready = <<>>
    /\ req[r].pc = "new"
    /\ \A i \in ReqIds : i < r => req[i].pc # "new"
    /\ LET d == Dispatch(m)
           q == [NewReq EXCEPT !.msg = m, !.dispatched = d, !.inflight = PendingCalls]
       IN \/ /\ d = "none"
             /\ req' = [req EXCEPT ![r] = [q EXCEPT !.pc = "dropped"]]
             /\ UNCHANGED <<port, net, memCache>>
          \/ \* handleBrokerHandshake (lines 112-120)
             /\ d = "handshake"
             /\ req' = [req EXCEPT ![r] = [q EXCEPT !.pc = "done", !.awaiting = 0, !.handshakeReply = TRUE]]
             /\ UNCHANGED <<port, net, memCache>>
          \/ /\ d = "redirect"
             /\ IF validateTyped(m, HANDLE_REDIRECT_REQUEST)
                THEN AfterValidation(r, q)
                ELSE /\ req' = [req EXCEPT ![r] = [q EXCEPT !.pc = "dropped"]]
                     /\ UNCHANGED <<port, net, memCache>>
          \/ /\ d = "auth"
             /\ IF validateTyped(m, AUTH_REQUEST)
                THEN AfterValidation(r, q)
                ELSE /\ req' = [req EXCEPT ![r] = [q EXCEPT !.pc = "dropped"]]
                     /\ UNCHANGED <<port, net, memCache>>
    /\ UNCHANGED <<preferredInteractionType, currentBrokerRedirectResponse, hrp, activeAccount, ready>>

\* a handler suspended on the redirect completion resumes
ResumeHandler ==
    /\ ready # <<>>
    /\ LET r == Head(ready)
           q == [req[r] EXCEPT !.inflight = {}]
       IN /\ ready' = Tail(ready)
          /\ IF hrp[req[r].awaiting].pc = "rejected"
             THEN \* the await throws inside the handler: nothing catches it
                  /\ req' = [req EXCEPT ![r] = [q EXCEPT !.pc = "threw", !.awaiting = 0]]
                  /\ UNCHANGED <<port, net, memCache>>
             ELSE IF q.dispatched = "redirect" THEN RedirectRespond(r, q) ELSE AuthProceed(r, q)
    /\ UNCHANGED <<preferredInteractionType, currentBrokerRedirectResponse, hrp, activeAccount>>

\* what acquireTokenByRefreshToken / acquireTokenByIframe / acquireTokenPopupAsync
\* can settle with
NetOutcomes(flow) ==
    {AppResult(NoThumb, "", 0), ErrorResult("error")}
    \cup IF flow = "refreshToken" THEN {BrokerResult(0)} ELSE {}

\* mutant: the renewal's result is passed on whatever it carries
SilentResponse_PassResult(out) == out

\* brokeredSilentRequest after its await (lines 349-368)
SilentResponse(out) ==
    IF out.tag = "tokensToCache" THEN out
    ELSE IF out.tag = "brokerTokens" THEN ErrorResult("noTokensToCache")
    ELSE out

\* brokeredPopupRequest / brokeredSsoSilentRequest after their await
\* (lines 290-299, 320-329)
InteractiveResponse(out) == out

\* the acquisition started for message r settles
AcquisitionSettles(r, out) ==
    /\ ready = <<>>
    /\ req[r].pc \in {"refreshToken", "iframe", "popup"}
    /\ port' = [port EXCEPT ![r] = PostAndClose(@, "AuthResponse",
                    IF req[r].pc = "refreshToken" THEN SilentResponse(out)
                    ELSE InteractiveResponse(out))]
    /\ req' = [req EXCEPT ![r].pc = "done", ![r].settled = out.tag, ![r].awaiting = 0]
    /\ UNCHANGED <<preferredInteractionType, currentBrokerRedirectResponse, hrp, memCache,
                   activeAccount, net, ready>>

\* handleRedirectPromise up to its await (lines 44-50)
CallHandleRedirectPromise(k) ==
    /\ ready = <<>>
    /\ hrp[k].pc = "idle"
    /\ \A i \in CallIds : i < k => hrp[i].pc # "idle"
    /\ currentBrokerRedirectResponse' = k
    /\ hrp' = [hrp EXCEPT ![k].pc = "pending"]
    /\ UNCHANGED <<preferredInteractionType, memCache, activeAccount, req, port, net, ready>>

\* waitForBrokeredResponse after its await (lines 62-73)
waitForBrokeredResponse(cache, out) ==
    IF out.tag = "tokensToCache" THEN setMemoryCache(cache, out) ELSE cache

\* mutant: the redirect result is returned whatever it carries
RedirectReturn_Always(out) == out

\* handleRedirectPromise's return value (line 53)
RedirectReturn(out) ==
    IF out # NullResult /\ out.tag # "tokensToCache" THEN out ELSE NullResult

\* currentBrokerRedirectResponse after call k's await (line 51)
ClearCurrent(cur, k) == 0

\* super.handleRedirectPromise settles for call k: waitForBrokeredResponse
\* finishes, then handleRedirectPromise (the first continuation of the stored
\* promise), then the suspended handlers are queued
RedirectSettles(k, out) ==
    /\ ready = <<>>
    /\ hrp[k].pc = "pending"
    /\ IF out.tag = "reject"
       THEN \* lines 62 and 50 throw: line 51 is not reached
            /\ hrp' = [hrp EXCEPT ![k] = [pc |-> "rejected", out |-> out, ret |-> NullResult]]
            /\ UNCHANGED <<memCache, activeAccount, currentBrokerRedirectResponse>>
       ELSE /\ memCache' = waitForBrokeredResponse(memCache, out)
            /\ activeAccount' = (activeAccount \/ out.tag = "tokensToCache")
            /\ currentBrokerRedirectResponse' = ClearCurrent(currentBrokerRedirectResponse, k)
            /\ hrp' = [hrp EXCEPT ![k] = [pc |-> "returned", out |-> out, ret |-> RedirectReturn(out)]]
    /\ ready' = Waiters(k)
    /\ UNCHANGED <<preferredInteractionType, req, port, net>>


\* ------------------------------------- BrokerHandshakeResponse.validate
\* A MessageEvent at the embedded client's listener; version: data.version is
\* present; claimedOrigin: a brokerOrigin field carried in the payload
HsMsg(wf, ty, v, o, c) ==
    [wellFormed |-> wf, messageType |-> ty, version |-> v, origin |-> o, claimedOrigin |-> c]

NoHsMsg == HsMsg(FALSE, "", FALSE, "", "")

\* data.brokerOrigin of a handshake response: the Broker sends "" (line 115),
\* another sender can put any origin there
ClaimedOrigins == {"", ChildOrigin}

ClientInbox ==
    {HsMsg(wf, ty, v, o, c) :
        wf \in BOOLEAN, ty \in {HANDSHAKE_RESPONSE, AUTH_REQUEST, "unknown"}, v \in BOOLEAN,
        o \in Origins, c \in ClaimedOrigins}

\* brokerOptions.trustedBrokerDomains values that occur
TrustedLists == {{}, {OtherOrigin}, {WildcardExample}}

ValidateNull == [kind |-> "null", brokerOrigin |-> ""]
ValidateThrow == [kind |-> "untrustedBrokerError", brokerOrigin |-> ""]
ValidateResponse(o) == [kind |-> "response", brokerOrigin |-> o]

\* mutant: the trust check is skipped
validate_NoTrustCheck(message, trustedBrokerDomains) ==
    IF validateMessage(message) /\ message.messageType = HANDSHAKE_RESPONSE /\ message.version
    THEN ValidateResponse(message.origin)
    ELSE ValidateNull

\* mutant: the broker origin is read from the payload
validate_PayloadOrigin(message, trustedBrokerDomains) ==
    IF validateMessage(message) /\ message.messageType = HANDSHAKE_RESPONSE /\ message.version
    THEN LET matchedDomains == {d \in trustedBrokerDomains : matchPattern(d, message.origin)}
         IN IF Cardinality(matchedDomains) <= 0
            THEN ValidateThrow
            ELSE ValidateResponse(message.claimedOrigin)
    ELSE ValidateNull

\* mutant: the trust check comes before the structural check
validate_TrustFirst(message, trustedBrokerDomains) ==
    IF Cardinality({d \in trustedBrokerDomains : matchPattern(d, message.origin)}) <= 0
    THEN ValidateThrow
    ELSE IF validateMessage(message) /\ message.messageType = HANDSHAKE_RESPONSE /\ message.version
         THEN ValidateResponse(message.origin)
         ELSE ValidateNull

\* BrokerHandshakeResponse.validate (lines 455-472)
validate(message, trustedBrokerDomains) ==
    IF validateMessage(message) /\ message.messageType = HANDSHAKE_RESPONSE /\ message.version
    THEN LET matchedDomains == {d \in trustedBrokerDomains : matchPattern(d, message.origin)}
         IN IF Cardinality(matchedDomains) <= 0
            THEN ValidateThrow
            ELSE ValidateResponse(message.origin)
    ELSE ValidateNull

ValidateInit ==
    /\ vIn \in [message : ClientInbox, trustedBrokerDomains : TrustedLists]
    /\ vOut = [kind |-> "notRun", brokerOrigin |-> ""]

ValidateIdle ==
    /\ vIn = [message |-> NoHsMsg, trustedBrokerDomains |-> {}]
    /\ vOut = [kind |-> "notRun", brokerOrigin |-> ""]

Validate ==
    /\ vOut.kind = "notRun"
    /\ vOut' = validate(vIn.message, vIn.trustedBrokerDomains)
    /\ UNCHANGED vIn

\* ------------------------------------------- the Response Cache alone
\* scope arrays: one set of scopes in two orders and with a duplicate, and a
\* different set
ScopeLists == {<<"read", "write">>, <<"write", "read">>, <<"read", "write", "read">>, <<"read">>}

CacheThumbprints ==
    {Thumbprint(Authority, c, sc) : c \in {"client-1", "client-2"}, sc \in ScopeLists}

\* the cache before the write: empty, or one result of an earlier redirect
PriorCaches ==
    {{}} \cup {{AppResult(t, o, 1)} : t \in Thumbprints, o \in {ChildOrigin, OtherOrigin}}

\* the result the write stores: its responseThumbprint is the key
Written == AppResult(cIn.putThumb, cIn.putOrigin, 2)

CacheInit ==
    /\ cIn \in [putThumb : CacheThumbprints, putOrigin : {ChildOrigin, OtherOrigin},
                 getThumb : CacheThumbprints, getOrigin : {ChildOrigin, OtherOrigin},
                 prior : PriorCaches]
    /\ cCache = cIn.prior
    /\ cLog = <<>>

CacheIdle ==
    /\ cIn = [putThumb |-> NoThumb, putOrigin |-> "", getThumb |-> NoThumb, getOrigin |-> "",
              prior |-> {}]
    /\ cCache = {}
    /\ cLog = <<>>

LookedUp(by, got) == [by |-> by, got |-> got]

\* waitForBrokeredResponse's cache write (line 69)
CachePut ==
    /\ cLog = <<>>
    /\ cCache' = setMemoryCache(cCache, Written)
    /\ cLog' = <<LookedUp("put", Written)>>
    /\ UNCHANGED cIn

\* handleBrokerAuthRequest's lookup (line 176)
CacheLookupByThumbprint ==
    /\ cLog # <<>>
    /\ Len(cLog) <= MaxLookups
    /\ LET e == getBrokerResponseByThumbprint(cCache, cIn.getThumb, cIn.getOrigin)
       IN /\ cLog' = Append(cLog, LookedUp("thumbprint", e))
          /\ cCache' = removeServed(cCache, e)
    /\ UNCHANGED cIn

\* handleBrokerRedirectResponse's lookup (line 136)
CacheLookupByOrigin ==
    /\ cLog # <<>>
    /\ Len(cLog) <= MaxLookups
    /\ LET e == getBrokerResponseByOrigin(cCache, cIn.getOrigin)
       IN /\ cLog' = Append(cLog, LookedUp("origin", e))
          /\ cCache' = removeServed(cCache, e)
    /\ UNCHANGED cIn

\* ------------------------------------------------ application classes
PCA == "PublicClientApplication"
ECA == "ExperimentalClientApplication"

HandleRedirectPromise == "handleRedirectPromise"
AcquireTokenPopup == "acquireTokenPopup"
AcquireTokenSilent == "acquireTokenSilent"
SsoSilent == "ssoSilent"

\* the acquisition calls each class defines in this source
Apis(cls) ==
    IF cls = PCA
    THEN {HandleRedirectPromise, AcquireTokenPopup, AcquireTokenSilent}
    ELSE {HandleRedirectPromise, AcquireTokenPopup, AcquireTokenSilent, SsoSilent}

\* mutant: the connection flag is not consulted
Bonded_NoFlag == embeddedApp

\* this.embeddedApp && this.embeddedApp.brokerConnectionEstablished
Bonded == embeddedApp /\ brokerConnectionEstablished

\* mutant: acquireTokenSilent does not look for an account first
FirstStep_NoAccountCheck(cls, api, hasAccount) ==
    IF api = HandleRedirectPromise
    THEN IF broker THEN "brokerObject" ELSE IF Bonded THEN "send" ELSE "redirectLocal"
    ELSE IF api = AcquireTokenPopup THEN (IF Bonded THEN "send" ELSE "popup")
    ELSE IF api = SsoSilent THEN (IF Bonded THEN "send" ELSE "iframe")
    ELSE IF cls = PCA THEN (IF Bonded THEN "send" ELSE "cache")
    ELSE "cache"

\* mutant: ssoSilent and acquireTokenPopup of the experimental class run locally
FirstStep_LocalOnly(cls, api, hasAccount) ==
    IF api = HandleRedirectPromise
    THEN IF broker THEN "brokerObject" ELSE IF Bonded THEN "send" ELSE "redirectLocal"
    ELSE IF api = AcquireTokenPopup THEN "popup"
    ELSE IF api = SsoSilent THEN "iframe"
    ELSE IF cls = PCA THEN (IF Bonded THEN "send" ELSE "cache")
    ELSE IF ~hasAccount THEN "noAccount" ELSE "cache"

\* mutant: a standalone acquireTokenSilent starts with the refresh-token renewal
FirstStep_RenewFirst(cls, api, hasAccount) ==
    IF api = HandleRedirectPromise
    THEN IF broker THEN "brokerObject" ELSE IF Bonded THEN "send" ELSE "redirectLocal"
    ELSE IF api = AcquireTokenPopup THEN (IF Bonded THEN "send" ELSE "popup")
    ELSE IF api = SsoSilent THEN (IF Bonded THEN "send" ELSE "iframe")
    ELSE IF cls = PCA THEN (IF Bonded THEN "send" ELSE "refreshToken")
    ELSE IF ~hasAccount THEN "noAccount" ELSE IF Bonded THEN "cache" ELSE "refreshToken"

\* where a call goes first: handleRedirectPromise (lines 77-84, 246-253),
\* acquireTokenPopup (120-125, 265-273), ssoSilent (309-319),
\* acquireTokenSilent (134-149, 334-352)
FirstStep(cls, api, hasAccount) ==
    IF api = HandleRedirectPromise
    THEN IF broker THEN "brokerObject" ELSE IF Bonded THEN "send" ELSE "redirectLocal"
    ELSE IF api = AcquireTokenPopup THEN (IF Bonded THEN "send" ELSE "popup")
    ELSE IF api = SsoSilent THEN (IF Bonded THEN "send" ELSE "iframe")
    ELSE IF cls = PCA THEN (IF Bonded THEN "send" ELSE "cache")
    ELSE IF ~hasAccount THEN "noAccount" ELSE "cache"

\* mutant: the experimental class renews locally after a cache miss
AfterCacheMiss_Local(cls) == "refreshToken"

\* acquireTokenSilent after acquireCachedToken failed (lines 152-154, 355-360)
AfterCacheMiss(cls) ==
    IF cls = ECA /\ Bonded THEN "send" ELSE "refreshToken"

\* the events emitted when a call starts (lines 140, 312, 346)
StartEvents(api, step) ==
    IF api = AcquireTokenSilent /\ step # "noAccount" THEN <<"ACQUIRE_TOKEN_START">>
    ELSE IF api = SsoSilent THEN <<"SSO_SILENT_START">>
    ELSE <<>>

\* the events emitted when a local step of a call settles
\* (lines 150, 155, 158, 320, 323, 353, 361, 364)
SettleEvents(api, ok) ==
    IF api = AcquireTokenSilent
    THEN <<IF ok THEN "ACQUIRE_TOKEN_SUCCESS" ELSE "ACQUIRE_TOKEN_FAILURE">>
    ELSE IF api = SsoSilent
    THEN <<IF ok THEN "SSO_SILENT_SUCCESS" ELSE "SSO_SILENT_FAILURE">>
    ELSE <<>>

\* what a local network step (acquireTokenByRefreshToken, acquireTokenByIframe,
\* acquireTokenPopupAsync, handleRedirectPromise) can settle with
LocalErrors == {"interaction_required", "network_error"}
LocalOutcomes == {"result"} \cup LocalErrors

\* what the Broker can answer a forwarded call with
BrokerAnswerKinds == {"result", "interaction_required", "no_tokens_to_cache"}

\* mutant: an interaction-required renewal failure opens a popup
AfterRenewalError_Escalate(err) ==
    IF err = "interaction_required" THEN "popup" ELSE "done"

\* acquireTokenSilent after acquireTokenByRefreshToken failed (lines 157-160,
\* 363-366): the failure event is emitted and the error rethrown
AfterRenewalError(err) == "done"

\* mutant: a brokered attempt that failed is retried locally
AfterBrokerAnswer_RetryLocal(api, ans) ==
    IF ans = "result" THEN "done"
    ELSE IF api = AcquireTokenSilent THEN "refreshToken"
    ELSE IF api = SsoSilent THEN "iframe"
    ELSE IF api = AcquireTokenPopup THEN "popup"
    ELSE "redirectLocal"

\* the promise of embeddedApp.send...Request is what the call returns
\* (lines 81, 122, 142, 250, 271, 316, 358): nothing follows its settling
AfterBrokerAnswer(api, ans) == "done"

\* cached: acquireCachedToken will succeed for the request (the token is in the
\* local cache and no forced refresh is asked); renewal: what the local
\* refresh-token renewal settled with; answer: what the Broker answered;
\* error: the error the caller got
NewCall == [api |-> "", hasAccount |-> FALSE, cached |-> FALSE, pc |-> "idle", phase |-> "",
            local |-> <<>>, sent |-> <<>>, events |-> <<>>, renewal |-> "", answer |-> "",
            error |-> "", outcome |-> ""]

\* the handshake phase a call starts in
Phase ==
    IF initPromise \in {"untrustedBrokerError", "handshakeTimeout"} THEN "failed"
    ELSE IF Bonded THEN "bonded"
    ELSE "standalone"

\* the message embeddedApp.send...Request posts for an api
SendMessage(api) ==
    IF api = HandleRedirectPromise THEN HANDLE_REDIRECT_REQUEST ELSE AUTH_REQUEST

\* initializeBrokering (lines 57-75, 219-237), up to the handshake's await
\* mutant: allowBrokering is looked at before actAsBroker
BrokeringRole_AllowBrokeringFirst(a) ==
    IF ~a.isBrowserEnvironment \/ (a.cls = ECA /\ ~a.experimental) THEN "none"
    ELSE IF a.allowBrokering THEN "embedded"
    ELSE IF a.actAsBroker /\ ~a.isInIframe THEN "broker"
    ELSE "none"

\* initializeBrokering: the role the configuration gives the application
\* (lines 58-74, 220-236)
BrokeringRole(a) ==
    IF ~a.isBrowserEnvironment \/ (a.cls = ECA /\ ~a.experimental) THEN "none"
    ELSE IF a.actAsBroker /\ ~a.isInIframe THEN "broker"
    ELSE IF a.allowBrokering THEN "embedded"
    ELSE "none"

InitializeBrokering ==
    /\ initPromise = "notCalled"
    /\ LET role == BrokeringRole(app)
       IN IF role = "broker"
          THEN /\ broker' = TRUE
               /\ initPromise' = "resolved"
               /\ UNCHANGED embeddedApp
          ELSE IF role = "embedded"
          THEN /\ embeddedApp' = TRUE
               /\ initPromise' = "handshaking"
               /\ UNCHANGED broker
          ELSE /\ initPromise' = "resolved"
               /\ UNCHANGED <<broker, embeddedApp>>
    /\ UNCHANGED <<app, brokerConnectionEstablished, brokerOrigin, settledBy, calls>>

\* EmbeddedClientApplication: a message arrives while the handshake is awaited
HandshakeMessage(m) ==
    /\ initPromise = "handshaking"
    /\ LET v == validate(m, app.trustedBrokerDomains)
       IN \/ \* not a handshake response: the message is dropped
             /\ v.kind = "null"
             /\ UNCHANGED <<brokerConnectionEstablished, brokerOrigin, initPromise, settledBy>>
          \/ \* untrusted broker: the handshake fails, the error goes to the caller
             /\ v.kind = "untrustedBrokerError"
             /\ initPromise' = "untrustedBrokerError"
             /\ settledBy' = m
             /\ UNCHANGED <<brokerConnectionEstablished, brokerOrigin>>
          \/ /\ v.kind = "response"
             /\ brokerConnectionEstablished' = TRUE
             /\ brokerOrigin' = v.brokerOrigin
             /\ initPromise' = "resolved"
             /\ settledBy' = m
    /\ UNCHANGED <<app, broker, embeddedApp, calls>>

\* EmbeddedClientApplication: no handshake response within the allotted window
HandshakeTimeout ==
    /\ initPromise = "handshaking"
    /\ initPromise' = "handshakeTimeout"
    /\ UNCHANGED <<app, broker, embeddedApp, brokerConnectionEstablished, brokerOrigin,
                   settledBy, calls>>

\* the application calls api: the call runs up to its first await
StartCall(c, api, hasAccount, cached) ==
    /\ calls[c].pc = "idle"
    /\ \A i \in ApiCalls : i < c => calls[i].pc # "idle"
    /\ api \in Apis(app.cls)
    \* only ExperimentalClientApplication.acquireTokenSilent looks for an account
    /\ hasAccount \/ (app.cls = ECA /\ api = AcquireTokenSilent)
    \* only acquireTokenSilent reads the token cache, for an account
    /\ cached => (api = AcquireTokenSilent /\ hasAccount)
    /\ LET step == FirstStep(app.cls, api, hasAccount)
           q == [NewCall EXCEPT !.api = api, !.hasAccount = hasAccount, !.cached = cached,
                                !.phase = Phase,
                                !.events = StartEvents(api, step)]
       IN calls' = [calls EXCEPT ![c] =
            IF step = "noAccount"
            THEN [q EXCEPT !.pc = "done", !.outcome = "noAccountError"]
            ELSE IF step = "send"
            THEN [q EXCEPT !.pc = "send", !.sent = <<SendMessage(api)>>]
            ELSE [q EXCEPT !.pc = step, !.local = <<step>>]]
    /\ UNCHANGED <<app, broker, embeddedApp, brokerConnectionEstablished, brokerOrigin,
                   initPromise, settledBy>>

\* acquireTokenSilent: createSilentFlowClient and acquireCachedToken settle
\* (lines 148-154, 351-360)
CacheSettles(c) ==
    /\ calls[c].pc = "cache"
    /\ LET q == calls[c]
           next == AfterCacheMiss(app.cls)
       IN calls' = [calls EXCEPT ![c] =
            IF q.cached
            THEN [q EXCEPT !.pc = "done", !.outcome = "result",
                           !.events = @ \o SettleEvents(q.api, TRUE)]
            ELSE IF next = "send"
            THEN [q EXCEPT !.pc = "send", !.sent = Append(@, SendMessage(q.api))]
            ELSE [q EXCEPT !.pc = next, !.local = Append(@, next)]]
    /\ UNCHANGED <<app, broker, embeddedApp, brokerConnectionEstablished, brokerOrigin,
                   initPromise, settledBy>>

\* a local network step of call c settles with out
LocalSettles(c, out) ==
    /\ calls[c].pc \in {"refreshToken", "iframe", "popup", "redirectLocal", "brokerObject"}
    /\ LET q0 == calls[c]
           q == IF q0.pc = "refreshToken" THEN [q0 EXCEPT !.renewal = out] ELSE q0
           next == IF q0.pc = "refreshToken" /\ out # "result"
                   THEN AfterRenewalError(out) ELSE "done"
       IN calls' = [calls EXCEPT ![c] =
            IF next = "done"
            THEN [q EXCEPT !.pc = "done",
                           !.outcome = IF out = "result" THEN "result" ELSE "error",
                           !.error = IF out = "result" THEN "" ELSE out,
                           !.events = @ \o SettleEvents(q.api, out = "result")]
            ELSE [q EXCEPT !.pc = next, !.local = Append(@, next)]]
    /\ UNCHANGED <<app, broker, embeddedApp, brokerConnectionEstablished, brokerOrigin,
                   initPromise, settledBy>>

\* the Broker answers a forwarded call: the answer is the call's outcome
BrokerAnswers(c, ans) ==
    /\ calls[c].pc = "send"
    /\ LET q == [calls[c] EXCEPT !.answer = ans]
           next == AfterBrokerAnswer(q.api, ans)
       IN calls' = [calls EXCEPT ![c] =
            IF next = "done"
            THEN [q EXCEPT !.pc = "done",
                           !.outcome = IF ans = "result" THEN "brokerResult" ELSE "brokerError",
                           !.error = IF ans = "result" THEN "" ELSE ans]
            ELSE [q EXCEPT !.pc = next, !.local = Append(@, next)]]
    /\ UNCHANGED <<app, broker, embeddedApp, brokerConnectionEstablished, brokerOrigin,
                   initPromise, settledBy>>

AppConfigs ==
    {a \in [cls : {PCA, ECA}, isBrowserEnvironment : BOOLEAN, experimental : BOOLEAN,
            actAsBroker : BOOLEAN, allowBrokering : BOOLEAN, isInIframe : BOOLEAN,
            trustedBrokerDomains : TrustedLists] :
        /\ (a.cls = PCA => a.experimental)
        /\ (~a.allowBrokering => a.trustedBrokerDomains = {})}

ClientInit ==
    /\ app \in AppConfigs
    /\ broker = FALSE
    /\ embeddedApp = FALSE
    /\ brokerConnectionEstablished = FALSE
    /\ brokerOrigin = ""
    /\ initPromise = "notCalled"
    /\ settledBy = NoHsMsg
    /\ calls = [c \in ApiCalls |-> NewCall]

ClientIdle ==
    /\ app = [cls |-> PCA, isBrowserEnvironment |-> TRUE, experimental |-> TRUE,
              actAsBroker |-> FALSE, allowBrokering |-> FALSE, isInIframe |-> FALSE,
              trustedBrokerDomains |-> {}]
    /\ broker = FALSE
    /\ embeddedApp = FALSE
    /\ brokerConnectionEstablished = FALSE
    /\ brokerOrigin = ""
    /\ initPromise = "notCalled"
    /\ settledBy = NoHsMsg
    /\ calls = [c \in ApiCalls |-> NewCall]

ClientNext ==
    \/ InitializeBrokering /\ UNCHANGED otherThanClient
    \/ \E m \in ClientInbox : HandshakeMessage(m) /\ UNCHANGED otherThanClient
    \/ HandshakeTimeout /\ UNCHANGED otherThanClient
    \/ \E c \in ApiCalls, api \in {HandleRedirectPromise, AcquireTokenPopup, AcquireTokenSilent, SsoSilent},
          hasAccount \in BOOLEAN, cached \in BOOLEAN :
            StartCall(c, api, hasAccount, cached) /\ UNCHANGED otherThanClient
    \/ \E c \in ApiCalls : CacheSettles(c) /\ UNCHANGED otherThanClient
    \/ \E c \in ApiCalls, out \in LocalOutcomes : LocalSettles(c, out) /\ UNCHANGED otherThanClient
    \/ \E c \in ApiCalls, ans \in BrokerAnswerKinds : BrokerAnswers(c, ans) /\ UNCHANGED otherThanClient

\* ------------------------------------------- StandardInteractionClient
\* An authority URL: host, tenant segment, and whether it ends with a slash
Url(h, t, s) == [host |-> h, tenant |-> t, slash |-> s]
NoUrl == Url("", "", FALSE)

AzurePublic == "https://login.microsoftonline.com"
AzureUsGovernment == "https://login.microsoftonline.us"
AzureChina == "https://login.partner.microsoftonline.cn"

\* AzureCloudOptions; NoCloudOptions: the argument is not supplied
NoCloudOptions == [azureCloudInstance |-> "", tenant |-> ""]
CloudOptions ==
    {NoCloudOptions,
     [azureCloudInstance |-> AzureUsGovernment, tenant |-> "tenant-1"],
     [azureCloudInstance |-> AzureChina, tenant |-> "tenant-1"]}

RequestAuthorities ==
    {NoUrl, Url(AzurePublic, "common", TRUE), Url(AzurePublic, "common", FALSE),
     Url(AzurePublic, "tenant-1", FALSE)}

ConfigAuthorities == {Url(AzurePublic, "common", TRUE), Url(AzurePublic, "organizations", FALSE)}

\* Authority.canonicalAuthority: the URL with its trailing slash
canonicalAuthority(u) == [u EXCEPT !.slash = TRUE]

\* the authority of a cloud instance and tenant
CloudAuthority(o) == Url(o.azureCloudInstance, o.tenant, TRUE)

\* mutant: the request authority is preferred to the cloud options
getDiscoveredAuthority_RequestFirst(requestAuthority, requestAzureCloudOptions, configAuthority) ==
    canonicalAuthority(
        IF requestAuthority # NoUrl THEN requestAuthority
        ELSE IF requestAzureCloudOptions # NoCloudOptions THEN CloudAuthority(requestAzureCloudOptions)
        ELSE configAuthority)

\* getDiscoveredAuthority(requestAuthority, requestAzureCloudOptions): the
\* authority the client resolves, as its canonicalAuthority
getDiscoveredAuthority(requestAuthority, requestAzureCloudOptions, configAuthority) ==
    canonicalAuthority(
        IF requestAzureCloudOptions # NoCloudOptions THEN CloudAuthority(requestAzureCloudOptions)
        ELSE IF requestAuthority # NoUrl THEN requestAuthority
        ELSE configAuthority)

\* CryptoOps.generatePkceCodes: the pairs pkceGenerator.generateCodes() can give
\* (the last one is the pair the test stubs in)
generatePkceCodes ==
    {[challenge |-> "challenge-1", verifier |-> "verifier-1"],
     [challenge |-> "challenge-2", verifier |-> "verifier-2"],
     [challenge |-> "TEST_CHALLENGE", verifier |-> "TEST_VERIFIER"]}

NoCodeRequest == [authority |-> NoUrl, code |-> "none", codeVerifier |-> ""]

\* mutant: the verifier comes from a second generated pair
initializeAuthorizationCodeRequest_SecondPair(request, generatedPkceParams) ==
    LET second == CHOOSE x \in generatePkceCodes : x # generatedPkceParams
    IN [request |-> [request EXCEPT !.codeChallenge = generatedPkceParams.challenge],
        authCodeRequest |-> [authority |-> request.authority, code |-> "",
                             codeVerifier |-> second.verifier]]

\* initializeAuthorizationCodeRequest(request) with the pair generatePkceCodes
\* resolved with: the request as it is left, and the request returned
initializeAuthorizationCodeRequest(request, generatedPkceParams) ==
    [request |-> [request EXCEPT !.codeChallenge = generatedPkceParams.challenge],
     authCodeRequest |-> [authority |-> request.authority, code |-> "",
                          codeVerifier |-> generatedPkceParams.verifier]]

InteractionInit ==
    /\ sicConfig \in [authority : ConfigAuthorities]
    /\ sicRequest \in [authority : RequestAuthorities, azureCloudOptions : CloudOptions,
                       codeChallenge : {""}]
    /\ sicOut = [pkce |-> <<>>, authCodeRequest |-> NoCodeRequest, authority |-> NoUrl]

InteractionIdle ==
    /\ sicConfig = [authority |-> NoUrl]
    /\ sicRequest = [authority |-> NoUrl, azureCloudOptions |-> NoCloudOptions, codeChallenge |-> ""]
    /\ sicOut = [pkce |-> <<>>, authCodeRequest |-> NoCodeRequest, authority |-> NoUrl]

\* testClient.initializeAuthorizationCodeRequest(request)
CallInitializeAuthorizationCodeRequest ==
    /\ sicOut.authCodeRequest = NoCodeRequest
    /\ \E generatedPkceParams \in generatePkceCodes :
          LET done == initializeAuthorizationCodeRequest(sicRequest, generatedPkceParams)
          IN /\ sicRequest' = done.request
             /\ sicOut' = [sicOut EXCEPT !.pkce = Append(@, generatedPkceParams),
                                         !.authCodeRequest = done.authCodeRequest]
    /\ UNCHANGED sicConfig

\* testClient.getDiscoveredAuthority(request.authority, request.azureCloudOptions)
CallGetDiscoveredAuthority ==
    /\ sicOut.authority = NoUrl
    /\ sicOut' = [sicOut EXCEPT !.authority =
            getDiscoveredAuthority(sicRequest.authority, sicRequest.azureCloudOptions,
                                   sicConfig.authority)]
    /\ UNCHANGED <<sicConfig, sicRequest>>

\* ------------------------------------------------------------ CryptoOps
\* the number of CryptoOps operations called in one run
MaxCryptoOps == 3

RSA_OAEP == "RSA-OAEP"
PKCS1_V15_KEYGEN_ALG == "RSASSA-PKCS1-v1_5"
HMAC == "HMAC"
S256_HASH_ALG == "SHA-256"

\* CryptoKeyTypes: the keyType argument of getPublicKeyThumbprint
stk_jwk == "stk_jwk"
\* "" is any other key type, or none
KeyTypes == {stk_jwk, ""}

\* the options as the constructor builds them (lines 68-92)
AtBindingKeyOptions == [name |-> PKCS1_V15_KEYGEN_ALG, hash |-> S256_HASH_ALG]
RtBindingKeyOptions == [name |-> RSA_OAEP, hash |-> S256_HASH_ALG]

\* key thumbprints (kid); "" is an absent kid
Kids == {"kid-1", "kid-2"}
KidArgs == Kids \cup {""}

\* the key-generation algorithms generateKeyPair makes a key pair for
KeyPairAlgorithms == {RSA_OAEP, PKCS1_V15_KEYGEN_ALG}

CryptoEntry(op, arg, result, alg, stored) ==
    [op |-> op, arg |-> arg, result |-> result, alg |-> alg, stored |-> stored]

CryptoInit ==
    /\ atBindingKeyOptions = AtBindingKeyOptions
    /\ rtBindingKeyOptions = RtBindingKeyOptions
    \* the stores are persistent: they hold what earlier sessions left
    /\ asymmetricKeys \in SUBSET Kids
    /\ symmetricKeys \in SUBSET asymmetricKeys
    /\ pendingPuts = {}
    /\ cryptoLog = <<>>

CryptoIdle ==
    /\ atBindingKeyOptions = AtBindingKeyOptions
    /\ rtBindingKeyOptions = RtBindingKeyOptions
    /\ asymmetricKeys = {}
    /\ symmetricKeys = {}
    /\ pendingPuts = {}
    /\ cryptoLog = <<>>

\* getPublicKeyThumbprint: the options chosen for a key type (lines 141-147)
KeyOptionsFor(keyType) ==
    IF keyType = stk_jwk THEN rtBindingKeyOptions ELSE atBindingKeyOptions

\* getPublicKeyThumbprint(request, keyType) resolving with thumbprint kid of a
\* newly generated key pair (lines 138-184); the write of line 172 is started
\* and not awaited
GetPublicKeyThumbprint(keyType, kid) ==
    /\ Len(cryptoLog) < MaxCryptoOps
    /\ kid \notin asymmetricKeys \cup pendingPuts
    /\ LET keyOptions == KeyOptionsFor(keyType)
       IN IF keyOptions.name \in KeyPairAlgorithms
          THEN /\ pendingPuts' = pendingPuts \cup {kid}
               /\ cryptoLog' = Append(cryptoLog,
                      CryptoEntry("getPublicKeyThumbprint", keyType, kid, keyOptions.name,
                                  kid \in asymmetricKeys))
          ELSE \* no key pair comes back: exportJwk(keyPair.publicKey) throws
               /\ cryptoLog' = Append(cryptoLog,
                      CryptoEntry("getPublicKeyThumbprint", keyType, "error", keyOptions.name, FALSE))
               /\ UNCHANGED pendingPuts
    /\ UNCHANGED <<atBindingKeyOptions, rtBindingKeyOptions, asymmetricKeys, symmetricKeys>>

\* the write started at line 172 settles: the entry is stored, or the write fails
PutSettles(kid, ok) ==
    /\ kid \in pendingPuts
    /\ pendingPuts' = pendingPuts \ {kid}
    /\ asymmetricKeys' = IF ok THEN asymmetricKeys \cup {kid} ELSE asymmetricKeys
    /\ UNCHANGED <<atBindingKeyOptions, rtBindingKeyOptions, symmetricKeys, cryptoLog>>

\* signJwt(payload, kid) (lines 191-221) and getAsymmetricPublicKey(keyThumbprint)
\* (lines 229-234): both read the key pair and use its publicKey
UseKeyPair(op, kid) ==
    /\ Len(cryptoLog) < MaxCryptoOps
    /\ cryptoLog' = Append(cryptoLog,
            CryptoEntry(op, kid, IF kid \in asymmetricKeys THEN "ok" ELSE "error", "",
                        kid \in asymmetricKeys))
    /\ UNCHANGED <<atBindingKeyOptions, rtBindingKeyOptions, asymmetricKeys, symmetricKeys,
                   pendingPuts>>

SignJwt(kid) == UseKeyPair("signJwt", kid)

GetAsymmetricPublicKey(kid) == UseKeyPair("getAsymmetricPublicKey", kid)

\* mutant: the kid of the request is not tested
decryptBoundTokenResponse_NoKidCheck(kid, decrypts) ==
    IF kid # "" /\ kid \notin asymmetricKeys THEN [result |-> "error", put |-> {}]
    ELSE IF decrypts THEN [result |-> "ok", put |-> {kid}]
    ELSE [result |-> "error", put |-> {}]

\* decryptBoundTokenResponse(boundServerTokenResponse, request), kid being
\* request.stkJwk (lines 241-291): how it settles and what it puts into the
\* symmetric key store; decrypts: the unwrapping and decryption succeed
decryptBoundTokenResponse(kid, decrypts) ==
    IF kid = "" THEN [result |-> "missingStkKidError", put |-> {}]
    ELSE IF kid \notin asymmetricKeys THEN [result |-> "error", put |-> {}]
    ELSE IF decrypts THEN [result |-> "ok", put |-> {kid}]
    ELSE [result |-> "error", put |-> {}]

DecryptBoundTokenResponse(kid, decrypts) ==
    /\ Len(cryptoLog) < MaxCryptoOps
    /\ LET done == decryptBoundTokenResponse(kid, decrypts)
       IN /\ symmetricKeys' = symmetricKeys \cup done.put
          /\ cryptoLog' = Append(cryptoLog,
                CryptoEntry("decryptBoundTokenResponse", kid, done.result, "", FALSE))
    /\ UNCHANGED <<atBindingKeyOptions, rtBindingKeyOptions, asymmetricKeys, pendingPuts>>

\* signBoundTokenRequest(request, payload) with request.stkKid and request.skKid
\* (lines 293-356)
SignBoundTokenRequest(stkKid, skKid) ==
    /\ Len(cryptoLog) < MaxCryptoOps
    /\ IF stkKid = "" \/ skKid = ""
       THEN \* line 355: the payload is returned as it is
            /\ cryptoLog' = Append(cryptoLog,
                    CryptoEntry("signBoundTokenRequest", stkKid, "payload", "", FALSE))
            /\ UNCHANGED rtBindingKeyOptions
       ELSE IF stkKid \notin asymmetricKeys \/ skKid \notin symmetricKeys
       THEN \* no key to derive from: the derivation of line 325 fails
            /\ cryptoLog' = Append(cryptoLog,
                    CryptoEntry("signBoundTokenRequest", stkKid, "error", "", FALSE))
            /\ UNCHANGED rtBindingKeyOptions
       ELSE \* lines 345-346: cryptoKeyOptions is this._rtBindingKeyOptions itself
            /\ rtBindingKeyOptions' = [rtBindingKeyOptions EXCEPT !.name = HMAC]
            /\ cryptoLog' = Append(cryptoLog,
                    CryptoEntry("signBoundTokenRequest", stkKid, "ok", HMAC, FALSE))
    /\ UNCHANGED <<atBindingKeyOptions, asymmetricKeys, symmetricKeys, pendingPuts>>

BrokerInit ==
    /\ preferredInteractionType \in PreferredTypes
    /\ currentBrokerRedirectResponse = 0
    /\ hrp = [k \in CallIds |-> [pc |-> "idle", out |-> NullResult, ret |-> NullResult]]
    /\ memCache = {}
    /\ activeAccount = FALSE
    /\ req = [r \in ReqIds |-> NewReq]
    /\ port = [r \in ReqIds |-> <<>>]
    /\ net = [r \in ReqIds |-> <<>>]
    /\ ready = <<>>

BrokerNext ==
    \/ \E r \in ReqIds, m \in BrokerInbox : HandleBrokerMessage(r, m) /\ UNCHANGED otherThanBroker
    \/ ResumeHandler /\ UNCHANGED otherThanBroker
    \/ \E r \in ReqIds : \E out \in NetOutcomes(req[r].pc) :
            AcquisitionSettles(r, out) /\ UNCHANGED otherThanBroker
    \/ \E k \in CallIds : CallHandleRedirectPromise(k) /\ UNCHANGED otherThanBroker
    \/ \E k \in CallIds : \E out \in RedirectOutcomes(k) :
            RedirectSettles(k, out) /\ UNCHANGED otherThanBroker

BrokerIdle ==
    /\ preferredInteractionType = NoPref
    /\ currentBrokerRedirectResponse = 0
    /\ hrp = [k \in CallIds |-> [pc |-> "idle", out |-> NullResult, ret |-> NullResult]]
    /\ memCache = {}
    /\ activeAccount = FALSE
    /\ req = [r \in ReqIds |-> NewReq]
    /\ port = [r \in ReqIds |-> <<>>]
    /\ net = [r \in ReqIds |-> <<>>]
    /\ ready = <<>>

\* ----------------------------------------------------- specifications
\* the Broker
Init == BrokerInit /\ ClientIdle /\ ValidateIdle /\ CacheIdle /\ InteractionIdle /\ CryptoIdle

Next == BrokerNext

Spec == Init /\ [][Next]_vars

\* the application side: initializeBrokering, the handshake, acquisition calls
ClientSpecInit == ClientInit /\ BrokerIdle /\ ValidateIdle /\ CacheIdle /\ InteractionIdle /\ CryptoIdle

ClientSpecNext == ClientNext

ClientSpec == ClientSpecInit /\ [][ClientSpecNext]_vars

\* BrokerHandshakeResponse.validate applied to one message
ValidateSpecInit == ValidateInit /\ BrokerIdle /\ ClientIdle /\ CacheIdle /\ InteractionIdle /\ CryptoIdle

ValidateSpecNext == Validate /\ UNCHANGED otherThanValidate

ValidateSpec == ValidateSpecInit /\ [][ValidateSpecNext]_vars

\* the Response Cache: one write, then lookups
CacheSpecInit == CacheInit /\ BrokerIdle /\ ClientIdle /\ ValidateIdle /\ InteractionIdle /\ CryptoIdle

CacheSpecNext ==
    \/ CachePut /\ UNCHANGED otherThanCache
    \/ CacheLookupByThumbprint /\ UNCHANGED otherThanCache
    \/ CacheLookupByOrigin /\ UNCHANGED otherThanCache

CacheSpec == CacheSpecInit /\ [][CacheSpecNext]_vars

\* a StandardInteractionClient preparing one request
InteractionSpecInit ==
    InteractionInit /\ BrokerIdle /\ ClientIdle /\ ValidateIdle /\ CacheIdle /\ CryptoIdle

InteractionSpecNext ==
    \/ CallInitializeAuthorizationCodeRequest /\ UNCHANGED otherThanInteraction
    \/ CallGetDiscoveredAuthority /\ UNCHANGED otherThanInteraction

InteractionSpec == InteractionSpecInit /\ [][InteractionSpecNext]_vars

\* one CryptoOps object
CryptoSpecInit ==
    CryptoInit /\ BrokerIdle /\ ClientIdle /\ ValidateIdle /\ CacheIdle /\ InteractionIdle

CryptoSpecNext ==
    \/ \E keyType \in KeyTypes, kid \in Kids :
            GetPublicKeyThumbprint(keyType, kid) /\ UNCHANGED otherThanCrypto
    \/ \E kid \in Kids, ok \in BOOLEAN : PutSettles(kid, ok) /\ UNCHANGED otherThanCrypto
    \/ \E kid \in Kids : SignJwt(kid) /\ UNCHANGED otherThanCrypto
    \/ \E kid \in Kids : GetAsymmetricPublicKey(kid) /\ UNCHANGED otherThanCrypto
    \/ \E kid \in KidArgs, decrypts \in BOOLEAN :
            DecryptBoundTokenResponse(kid, decrypts) /\ UNCHANGED otherThanCrypto
    \/ \E stkKid \in KidArgs, skKid \in KidArgs :
            SignBoundTokenRequest(stkKid, skKid) /\ UNCHANGED otherThanCrypto

CryptoSpec == CryptoSpecInit /\ [][CryptoSpecNext]_vars

\* ------------------------------------------------------------- claims
Validated(r) ==
    \/ req[r].dispatched = "auth" /\ validateTyped(req[r].msg, AUTH_REQUEST)
    \/ req[r].dispatched = "redirect" /\ validateTyped(req[r].msg, HANDLE_REDIRECT_REQUEST)

Trusted(domains, o) == \E d \in domains : matchPattern(d, o)

\* C1: on the port of every auth request and redirect-completion request at most
\* one message is posted, and nothing is posted after the port was closed.
C1_AtMostOnePostNoneAfterClose ==
    \A r \in ReqIds :
        /\ Cardinality(Posts(port[r])) <= 1
        /\ \A i \in Posts(port[r]), j \in Closes(port[r]) : i < j

\* C2: every validated auth request and redirect-completion request whose
\* handler has ended has a response posted on its port and the port closed; a
\* redirect-completion request that found no cached entry got a null result.
C2_EveryValidatedRequestAnswered ==
    \A r \in ReqIds :
        (Validated(r) /\ req[r].pc \in {"done", "threw"}) =>
            /\ Posts(port[r]) # {}
            /\ port[r][Len(port[r])] = CloseEv
            /\ (req[r].dispatched = "redirect" /\ req[r].probe = NullResult
                    => port[r][1] = PostEv("AuthResponse", NullResult))

\* C3: a request that arrived while a redirect completion was in flight probes
\* the Response Cache (and starts an acquisition) only once that completion has
\* settled.
C3_BarrierHolds ==
    [][\A r \in ReqIds :
          (req[r].probe = NotProbed /\ req'[r].probe # NotProbed) =>
              LET during == IF req[r].pc = "new" THEN PendingCalls ELSE req[r].inflight
              IN \A k \in during : hrp[k].pc # "pending"]_vars

\* C4: a rejected redirect completion is no redirect result: the stored promise
\* is cleared and no request handler is lost to it.
C4_RejectionIsNoResult ==
    /\ \A k \in CallIds : hrp[k].pc = "rejected" => currentBrokerRedirectResponse # k
    /\ \A r \in ReqIds : req[r].pc # "threw"

\* C5: an auth request whose cache probe hit is answered with the cached result,
\* once, and no acquisition is started for it.
C5_CacheHitNoNetwork ==
    \A r \in ReqIds :
        (req[r].dispatched = "auth" /\ req[r].probe \notin {NotProbed, NullResult}) =>
            /\ net[r] = <<>>
            /\ port[r] = <<PostEv("AuthResponse", req[r].probe), CloseEv>>
            /\ req[r].pc = "done"
            /\ req[r].probe.thumb = req[r].msg.thumb
            /\ req[r].probe.origin = req[r].msg.origin

C5_Witness ==
    \E r \in ReqIds :
        /\ req[r].dispatched = "auth"
        /\ req[r].probe.tag = "tokensToCache"
        /\ req[r].pc = "done"

\* C6: a message whose origin matches no entry of the trusted domain list is
\* never dispatched to the handshake, redirect-completion or auth handler.
C6_UntrustedNeverDispatched ==
    \A r \in ReqIds :
        (req[r].pc # "new" /\ ~Trusted(BrokerTrustedDomains, req[r].msg.origin)) =>
            req[r].dispatched = "none"

\* C7: validate returns null for every message that is malformed, not a
\* HANDSHAKE_RESPONSE or without version, whatever its origin; raises the
\* untrusted-broker error for a structurally valid handshake response whose
\* origin matches no trusted pattern; returns the handshake response otherwise.
C7_ValidateThreeOutcomes ==
    vOut.kind # "notRun" =>
        LET m == vIn.message
            structural == m.wellFormed /\ m.messageType = HANDSHAKE_RESPONSE /\ m.version
            trusted == Trusted(vIn.trustedBrokerDomains, m.origin)
        IN /\ vOut.kind \in {"null", "untrustedBrokerError", "response"}
           /\ (~structural => vOut = ValidateNull)
           /\ (structural /\ ~trusted => vOut = ValidateThrow)
           /\ (structural /\ trusted => vOut = ValidateResponse(m.origin))

C7_Witness ==
    /\ vOut.kind = "untrustedBrokerError"
    /\ vIn.trustedBrokerDomains = {}

\* C8: the embedded client is Bonded only by a handshake response whose sender
\* origin matches trustedBrokerDomains; a handshake response from another origin
\* leaves it Unbonded and initializeBrokering's caller gets the untrusted-broker
\* error.
C8_BondedOnlyByTrustedHandshake ==
    /\ brokerConnectionEstablished =>
          /\ embeddedApp
          /\ settledBy.wellFormed /\ settledBy.messageType = HANDSHAKE_RESPONSE
          /\ Trusted(app.trustedBrokerDomains, settledBy.origin)
          /\ brokerOrigin = settledBy.origin
    /\ (settledBy # NoHsMsg /\ ~Trusted(app.trustedBrokerDomains, settledBy.origin)) =>
          /\ ~brokerConnectionEstablished
          /\ initPromise = "untrustedBrokerError"

C8_Witness ==
    /\ brokerConnectionEstablished
    /\ settledBy.origin = ChildOrigin
    /\ app.trustedBrokerDomains = {WildcardExample}

\* C9: a call made after the handshake failed (untrusted origin or timeout)
\* sends nothing to a broker and runs locally.
C9_StandaloneAfterFailedHandshake ==
    \A c \in ApiCalls :
        calls[c].phase = "failed" =>
            /\ calls[c].sent = <<>>
            /\ calls[c].outcome \notin {"brokerResult", "brokerError"}
            /\ (calls[c].outcome # "noAccountError" => calls[c].local # <<>>)

C9_Witness ==
    \E c \in ApiCalls :
        /\ calls[c].phase = "failed"
        /\ initPromise = "untrustedBrokerError"
        /\ calls[c].api = AcquireTokenSilent
        /\ calls[c].local = <<"cache", "refreshToken">>
        /\ calls[c].pc = "done"

LocalAcquisitions == {"refreshToken", "iframe", "popup", "redirectLocal"}

Renewals(c) == {i \in 1..Len(calls[c].local) : calls[c].local[i] = "refreshToken"}

\* C11: a forwarded call the Broker answered with an error ends with that same
\* error for the caller, and no local renewal, iframe, popup or redirect is
\* started for it.
C11_BrokerErrorSurfaced ==
    \A c \in ApiCalls :
        calls[c].answer \in BrokerAnswerKinds \ {"result"} =>
            /\ calls[c].sent # <<>>
            /\ calls[c].pc = "done"
            /\ calls[c].outcome = "brokerError"
            /\ calls[c].error = calls[c].answer
            /\ \A i \in 1..Len(calls[c].local) : calls[c].local[i] \notin LocalAcquisitions

C11_Witness ==
    \E c \in ApiCalls :
        /\ app.cls = ECA
        /\ calls[c].api = AcquireTokenSilent
        /\ calls[c].sent = <<AUTH_REQUEST>>
        /\ calls[c].answer = "interaction_required"
        /\ calls[c].error = "interaction_required"

\* C12: in an acquireTokenSilent that is not Bonded the token-cache lookup is the
\* first step; when it succeeds the cached token is the result and nothing else
\* is done; the refresh-token renewal is the second step and is taken only
\* when the lookup failed.
C12_CachedTokenFirst ==
    \A c \in ApiCalls :
        (calls[c].api = AcquireTokenSilent /\ calls[c].phase \in {"standalone", "failed"}) =>
            /\ (calls[c].local # <<>> => calls[c].local[1] = "cache")
            /\ (calls[c].outcome # "noAccountError" => calls[c].local # <<>>)
            /\ (calls[c].cached =>
                    /\ calls[c].local = <<"cache">>
                    /\ calls[c].sent = <<>>
                    /\ calls[c].renewal = ""
                    /\ (calls[c].pc = "done" => calls[c].outcome = "result"))
            /\ (Renewals(c) # {} => (~calls[c].cached /\ Renewals(c) = {2}))

C12_Witness ==
    \E c \in ApiCalls :
        /\ calls[c].api = AcquireTokenSilent
        /\ calls[c].phase = "standalone"
        /\ calls[c].cached
        /\ calls[c].pc = "done"
        /\ calls[c].outcome = "result"
        /\ calls[c].events = <<"ACQUIRE_TOKEN_START", "ACQUIRE_TOKEN_SUCCESS">>

\* C13: after a cache miss acquireTokenSilent makes exactly one renewal attempt
\* (its own refresh-token renewal, or the request it forwards when Bonded); a
\* failed renewal ends the call with the renewal's error, and acquireTokenSilent
\* never starts an iframe, a popup or a redirect.
C13_OneRenewalNoEscalation ==
    \A c \in ApiCalls :
        calls[c].api = AcquireTokenSilent =>
            /\ Cardinality(Renewals(c)) + Len(calls[c].sent) <= 1
            /\ (~calls[c].cached /\ calls[c].hasAccount /\ calls[c].pc # "cache") =>
                    Cardinality(Renewals(c)) + Len(calls[c].sent) = 1
            /\ \A i \in 1..Len(calls[c].local) :
                    calls[c].local[i] \notin {"iframe", "popup", "redirectLocal"}
            /\ (calls[c].renewal \in LocalErrors =>
                    /\ calls[c].pc = "done"
                    /\ calls[c].outcome = "error"
                    /\ calls[c].error = calls[c].renewal
                    /\ calls[c].events = <<"ACQUIRE_TOKEN_START", "ACQUIRE_TOKEN_FAILURE">>)

C13_Witness ==
    \E c \in ApiCalls :
        /\ calls[c].api = AcquireTokenSilent
        /\ calls[c].local = <<"cache", "refreshToken">>
        /\ calls[c].renewal = "interaction_required"
        /\ calls[c].error = "interaction_required"

\* C14: an acquireTokenSilent whose token is in the local cache returns the
\* cached token with no renewal and no message to the Broker, standalone and
\* Bonded, in both classes.
C14_CachedTokenServedLocally ==
    \A c \in ApiCalls :
        (calls[c].api = AcquireTokenSilent /\ calls[c].cached) =>
            /\ calls[c].local = <<"cache">>
            /\ calls[c].sent = <<>>
            /\ (calls[c].pc = "done" => calls[c].outcome = "result")

\* C15: no cached redirect result is delivered to two redirect-completion
\* requests: of two such requests from one origin at most one is answered with
\* the result, and a request that finds no entry is answered with a null result.
C15_RedirectResultDeliveredOnce ==
    /\ \A r1, r2 \in ReqIds :
          (/\ r1 # r2
           /\ req[r1].dispatched = "redirect" /\ req[r2].dispatched = "redirect"
           /\ req[r1].probe.tag = "tokensToCache") =>
              req[r2].probe # req[r1].probe
    /\ \A r \in ReqIds :
          (req[r].dispatched = "redirect" /\ req[r].pc = "done") =>
              /\ port[r] = <<PostEv("AuthResponse", req[r].probe), CloseEv>>
              /\ req[r].probe.tag \in {"null", "tokensToCache"}
              /\ (req[r].probe.tag = "tokensToCache" => req[r].probe.origin = req[r].msg.origin)

C15_Witness ==
    \E r1, r2 \in ReqIds :
        /\ req[r1].dispatched = "redirect" /\ req[r2].dispatched = "redirect"
        /\ req[r1].msg.origin = req[r2].msg.origin
        /\ req[r1].probe.tag = "tokensToCache"
        /\ req[r2].pc = "done"
        /\ req[r2].probe = NullResult
        /\ port[r2] = <<PostEv("AuthResponse", NullResult), CloseEv>>

\* the lookups ask for the key the write stored under
SameKey == ThumbprintsMatch(cIn.getThumb, cIn.putThumb) /\ cIn.getOrigin = cIn.putOrigin

\* no other result is pending for the origin of the write
OnlyEntryOfOrigin ==
    \A x \in cIn.prior : x.origin # cIn.putOrigin \/ ThumbprintsMatch(x.thumb, cIn.putThumb)

\* C16: after a result R is written for (T, O), the first lookup by thumbprint
\* for (T, O) returns R; no later lookup returns R again; a second lookup by
\* thumbprint returns null, and so does a lookup by origin for O that follows
\* the first (R being the only result pending for O).
C16_PutThenGetOnce ==
    (SameKey /\ Len(cLog) >= 2 /\ cLog[2].by = "thumbprint") =>
        /\ cLog[2].got = Written
        /\ \A i \in 3..Len(cLog) :
              /\ cLog[i].got # Written
              /\ (cLog[i].by = "thumbprint" => cLog[i].got = NullResult)
              /\ (cLog[i].by = "origin" /\ OnlyEntryOfOrigin => cLog[i].got = NullResult)

C16_Witness ==
    /\ SameKey
    /\ cIn.prior # {}
    /\ Len(cLog) = 3
    /\ cLog[2] = LookedUp("thumbprint", Written)
    /\ cLog[3] = LookedUp("origin", NullResult)

\* C19: two thumbprints with the same authority and client id whose scope
\* arrays hold the same elements, in any order and with duplicates, match, and
\* a lookup with one returns the result written under the other.
C19_ScopeOrderIrrelevant ==
    (/\ cIn.getThumb.authority = cIn.putThumb.authority
     /\ cIn.getThumb.clientId = cIn.putThumb.clientId
     /\ ScopeSet(cIn.getThumb.scopes) = ScopeSet(cIn.putThumb.scopes)) =>
        /\ ThumbprintsMatch(cIn.getThumb, cIn.putThumb)
        /\ (cIn.getOrigin = cIn.putOrigin /\ Len(cLog) >= 2 /\ cLog[2].by = "thumbprint"
                => cLog[2].got = Written)

C19_Witness ==
    /\ cIn.putThumb.scopes = <<"read", "write">>
    /\ cIn.getThumb.scopes = <<"write", "read", "write">> \/ cIn.getThumb.scopes = <<"read", "write", "read">>
    /\ Len(cLog) >= 2
    /\ cLog[2] = LookedUp("thumbprint", Written)

\* the result posted on the port of request r (null when nothing was posted)
Answer(r) ==
    IF Posts(port[r]) = {} THEN NullResult
    ELSE port[r][CHOOSE i \in Posts(port[r]) : \A j \in Posts(port[r]) : i <= j].result

HasEntryFor(cache, m) ==
    \E e \in cache : ThumbprintsMatch(e.thumb, m.thumb) /\ e.origin = m.origin

\* C17 as stated: once a brokered silent renewal, iframe or popup acquisition
\* has been answered with tokens, the Response Cache holds an entry for the
\* request's thumbprint and origin (until a later request is served with it).
C17_EveryAcquisitionCached ==
    \A r \in ReqIds :
        (/\ req[r].pc = "done"
         /\ net[r] # <<>>
         /\ Answer(r).tag = "tokensToCache") =>
            \/ HasEntryFor(memCache, req[r].msg)
            \/ \E r2 \in ReqIds : r2 # r /\ req[r2].probe.tag = "tokensToCache"

\* C17 amended: the Response Cache is written only by a redirect completion:
\* a completion whose result carries tokensToCache stores that result under its
\* thumbprint, so a lookup for that thumbprint and origin finds it; the result
\* of a brokered silent renewal, iframe or popup acquisition is posted on the
\* request's port and the cache is left as it was.
C17_RedirectResultsCached ==
    /\ [](\A e \in memCache :
            e.tag = "tokensToCache" /\ e.src \in CallIds /\ hrp[e.src].out = e)
    /\ [][/\ \A k \in CallIds :
              (hrp[k].pc = "pending" /\ hrp'[k].pc = "returned"
                  /\ hrp'[k].out.tag = "tokensToCache") =>
                  getBrokerResponseByThumbprint(memCache', hrp'[k].out.thumb, hrp'[k].out.origin)
                      = hrp'[k].out
          /\ \A r \in ReqIds :
              (req[r].pc \in {"refreshToken", "iframe", "popup"} /\ req'[r].pc = "done") =>
                  /\ memCache' = memCache
                  /\ Posts(port'[r]) # {}]_vars

C17_Witness ==
    \E r1, r2 \in ReqIds : \E k \in CallIds :
        /\ req[r1].dispatched = "auth"
        /\ req[r1].probe = hrp[k].out
        /\ hrp[k].out.tag = "tokensToCache"
        /\ net[r2] = <<"popup">>
        /\ Answer(r2).tag = "tokensToCache"
        /\ memCache = {}

\* C18 as stated: an auth request that probes the Response Cache while it
\* holds a result for the request's authority, client id and scopes is
\* answered with that result and starts no acquisition.
C18_HitWheneverThumbprintMatches ==
    [][\A r \in ReqIds :
          (/\ req[r].probe = NotProbed /\ req'[r].probe # NotProbed
           /\ req'[r].dispatched = "auth"
           /\ \E e \in memCache : ThumbprintsMatch(e.thumb, req'[r].msg.thumb)) =>
              /\ req'[r].probe.tag = "tokensToCache"
              /\ net'[r] = <<>>]_vars

\* C18 amended: an auth request is answered from the Response Cache, with no
\* acquisition, exactly when the cache holds a result for the request's
\* authority, client id and scopes that was cached for the request's origin;
\* the entry is then removed.  A request from another origin is a miss.
C18_HitWhenThumbprintAndOriginMatch ==
    [][\A r \in ReqIds :
          (/\ req[r].probe = NotProbed /\ req'[r].probe # NotProbed
           /\ req'[r].dispatched = "auth") =>
              IF HasEntryFor(memCache, req'[r].msg)
              THEN /\ req'[r].probe \in memCache
                   /\ ThumbprintsMatch(req'[r].probe.thumb, req'[r].msg.thumb)
                   /\ req'[r].probe.origin = req'[r].msg.origin
                   /\ net'[r] = <<>>
                   /\ port'[r] = <<PostEv("AuthResponse", req'[r].probe), CloseEv>>
                   /\ memCache' = memCache \ {req'[r].probe}
              ELSE /\ req'[r].probe = NullResult
                   /\ memCache' = memCache]_vars

C18_Witness ==
    \E r1, r2 \in ReqIds :
        /\ req[r1].dispatched = "auth" /\ req[r2].dispatched = "auth"
        /\ req[r1].msg.thumb = req[r2].msg.thumb
        /\ req[r1].msg.origin = OtherOrigin
        /\ req[r1].probe = NullResult
        /\ net[r1] # <<>>
        /\ req[r2].msg.origin = ChildOrigin
        /\ req[r2].probe.tag = "tokensToCache"
        /\ net[r2] = <<>>

\* C20: the brokerOrigin of a validated handshake response is the origin the
\* transport reported for the sender, and validate gives the same result for
\* every value of the brokerOrigin field carried in the payload.
C20_BrokerOriginFromTransport ==
    vOut.kind # "notRun" =>
        /\ (vOut.kind = "response" => vOut.brokerOrigin = vIn.message.origin)
        /\ \A c \in ClaimedOrigins :
              validate([vIn.message EXCEPT !.claimedOrigin = c], vIn.trustedBrokerDomains) = vOut

C20_Witness ==
    /\ vOut = ValidateResponse(OtherOrigin)
    /\ vIn.message.claimedOrigin = ChildOrigin
    /\ vIn.trustedBrokerDomains = {OtherOrigin}

C22_ResponsesInArrivalOrder ==
    [][\A r1, r2 \in ReqIds :
        (/\ r1 < r2
         /\ req[r1].dispatched = "auth" /\ req[r2].dispatched = "auth"
         /\ req[r1].awaiting # 0 /\ req[r1].awaiting = req[r2].awaiting) =>
            /\ hrp'[req[r1].awaiting].pc = "pending" =>
                    req'[r1].probe = NotProbed /\ req'[r2].probe = NotProbed
            /\ Posts(port[r1]) = {} => Posts(port'[r2]) = {}]_vars

\* ------------------------------------------------------------------ C23
\* C23: a brokered silent renewal that succeeds with a result carrying no
\* tokensToCache is answered with the NoTokensToCache error, once, and the
\* renewal is the only acquisition made for the request.
C23_NoTokensToCacheAnswered ==
    \A r \in ReqIds :
        (req[r].plan = "silentRenewal" /\ req[r].settled = "brokerTokens") =>
            /\ port[r] = <<PostEv("AuthResponse", ErrorResult("noTokensToCache")), CloseEv>>
            /\ net[r] = <<"refreshToken">>
            /\ req[r].pc = "done"

C23_Witness ==
    \E r \in ReqIds :
        /\ req[r].plan = "silentRenewal" /\ req[r].settled = "brokerTokens"
        /\ Posts(port[r]) # {}

\* ------------------------------------------------------------------ C24
\* the flow a handled request shows: the redirect notification, a popup, an
\* iframe, an acquisition that failed before it started, or nothing
FlowRun(r) ==
    IF \E i \in Posts(port[r]) : port[r][i].type = "RedirectResponse" THEN Redirect
    ELSE IF net[r] = <<"popup">> THEN Popup
    ELSE IF net[r] = <<"iframe">> THEN Silent
    ELSE IF port[r] # <<>> THEN "failedToStart"
    ELSE None

\* C24: for an interactive auth request handled without an account, the flow the
\* Broker runs is its preferredInteractionType when one is set, and the
\* message's interaction type when none is set.
C24_PreferredInteractionTypeRuns ==
    \A r \in ReqIds :
        (/\ req[r].dispatched = "auth"
         /\ req[r].msg.interactionType \in {Popup, Redirect}
         /\ req[r].plan \notin {"", "cached", "silentRenewal"}) =>
            LET t == IF preferredInteractionType # NoPref
                     THEN preferredInteractionType
                     ELSE req[r].msg.interactionType
            IN FlowRun(r) \in {t, "failedToStart"}

\* ------------------------------------------------------------------ C27
\* C27: on a cache miss with an active account or an account in the request the
\* Broker runs the silent refresh-token renewal and nothing else, whatever the
\* requested interaction type; a failed renewal is answered with its error.
C27_AccountMeansSilentRenewalOnly ==
    /\ [](\A r \in ReqIds :
            req[r].plan = "silentRenewal" =>
                /\ net[r] = <<"refreshToken">>
                /\ \A i \in Posts(port[r]) : port[r][i].type # "RedirectResponse"
                /\ req[r].settled \notin {"", "tokensToCache", "brokerTokens"} =>
                        port[r] = <<PostEv("AuthResponse", ErrorResult(req[r].settled)), CloseEv>>)
    /\ [][\A r \in ReqIds :
            (/\ req[r].probe = NotProbed /\ req'[r].probe = NullResult
             /\ req'[r].dispatched = "auth"
             /\ (activeAccount \/ req'[r].msg.account)) =>
                req'[r].plan = "silentRenewal" /\ net'[r] = <<"refreshToken">>]_vars

\* a popup request was handled while an account was active, and its renewal failed
C27_Witness ==
    \E r \in ReqIds :
        /\ req[r].msg.interactionType = Popup /\ ~req[r].msg.account
        /\ req[r].plan = "silentRenewal" /\ req[r].settled = "error"
        /\ port[r] = <<PostEv("AuthResponse", ErrorResult("error")), CloseEv>>

\* ------------------------------------------------------------------ C28
\* C28: an auth request with interaction type Silent never makes the Broker open
\* a popup or start a redirect, whatever the Broker's preference and whatever
\* the silent attempt returned.
C28_SilentNeverInteractive ==
    \A r \in ReqIds :
        (req[r].dispatched = "auth" /\ req[r].msg.interactionType = Silent) =>
            /\ \A i \in 1..Len(net[r]) : net[r][i] \notin {"popup", "redirect"}
            /\ \A i \in Posts(port[r]) : port[r][i].type # "RedirectResponse"
            /\ req[r].plan \in {"", "cached", "silentRenewal", "ssoSilent"}

C28_Witness ==
    \E r \in ReqIds :
        /\ preferredInteractionType \in {Popup, Redirect}
        /\ req[r].msg.interactionType = Silent
        /\ req[r].plan = "ssoSilent" /\ req[r].settled = "error"
        /\ net[r] = <<"iframe">> /\ req[r].pc = "done"

\* ------------------------------------------------------------------ C29
\* a message handleBrokerMessage has no handler for
Unhandled(m) ==
    \/ ~validateMessage(m)
    \/ m.messageType \notin {HANDSHAKE_REQUEST, HANDLE_REDIRECT_REQUEST, AUTH_REQUEST}

\* C29: a message that fails validateMessage, or whose type is none of the three
\* request types, is ignored: nothing is posted or started, and the Response
\* Cache, the active account and the stored redirect completion stay as they are.
C29_UnhandledMessageIgnored ==
    [][\A r \in ReqIds :
        (req[r].pc = "new" /\ req'[r].pc # "new" /\ Unhandled(req'[r].msg)) =>
            /\ req'[r].pc = "dropped" /\ ~req'[r].handshakeReply
            /\ port' = port /\ net' = net /\ ready' = ready
            /\ memCache' = memCache /\ activeAccount' = activeAccount
            /\ currentBrokerRedirectResponse' = currentBrokerRedirectResponse
            /\ hrp' = hrp]_vars

\* a handshake response reached the Broker while a result was cached and a
\* redirect completion was stored
C29_Witness ==
    \E r \in ReqIds :
        /\ req[r].msg.messageType = HANDSHAKE_RESPONSE /\ req[r].pc = "dropped"
        /\ memCache # {} /\ currentBrokerRedirectResponse # 0

C25_OnePkcePairChallengeAndVerifier ==
    sicOut.authCodeRequest # NoCodeRequest =>
        /\ Len(sicOut.pkce) = 1
        /\ sicRequest.codeChallenge = sicOut.pkce[1].challenge
        /\ sicOut.authCodeRequest.codeVerifier = sicOut.pkce[1].verifier

\* the case of the test: the stubbed pair
C25_Witness ==
    /\ sicOut.pkce = <<[challenge |-> "TEST_CHALLENGE", verifier |-> "TEST_VERIFIER"]>>
    /\ sicRequest.codeChallenge = "TEST_CHALLENGE"
    /\ sicOut.authCodeRequest.codeVerifier = "TEST_VERIFIER"

\* ------------------------------------------------------------------ C26
\* C26: getDiscoveredAuthority resolves the canonical authority of the cloud
\* options when they are supplied, else of the request authority when it is
\* supplied, else of the configured authority.
C26_AuthorityPrecedence ==
    sicOut.authority # NoUrl =>
        LET o == sicRequest.azureCloudOptions
        IN /\ o # NoCloudOptions =>
                sicOut.authority = Url(o.azureCloudInstance, o.tenant, TRUE)
           /\ (o = NoCloudOptions /\ sicRequest.authority # NoUrl) =>
                sicOut.authority = Url(sicRequest.authority.host, sicRequest.authority.tenant, TRUE)
           /\ (o = NoCloudOptions /\ sicRequest.authority = NoUrl) =>
                sicOut.authority = Url(sicConfig.authority.host, sicConfig.authority.tenant, TRUE)

\* the case of the second test: a request authority and US-government cloud options
C26_Witness ==
    /\ sicRequest.authority = Url(AzurePublic, "common", TRUE)
    /\ sicRequest.azureCloudOptions.azureCloudInstance = AzureUsGovernment
    /\ sicOut.authority = Url(AzureUsGovernment, "tenant-1", TRUE)

\* ------------------------------------------------------------------ C31
\* C31: in a brokered redirect the redirect notification is posted and the
\* channel closed before the brokered request is prepared and the navigation
\* started: whenever the request has been prepared or the navigation started,
\* the notification and the close are the first two things done on the port.
C31_NotifiedBeforeRedirect ==
    \A r \in ReqIds :
        (req[r].plan = Redirect /\ (req[r].redirectUri # "" \/ net[r] # <<>>)) =>
            /\ Len(port[r]) >= 2
            /\ port[r][1] = PostEv("RedirectResponse", NullResult)
            /\ port[r][2] = CloseEv

\* one brokered redirect navigated, another failed while its request was prepared
C31_Witness ==
    \E r1, r2 \in ReqIds :
        /\ req[r1].plan = Redirect /\ net[r1] = <<"redirect">>
        /\ port[r1] = <<PostEv("RedirectResponse", NullResult), CloseEv>>
        /\ req[r2].plan = Redirect /\ net[r2] = <<>> /\ Len(port[r2]) = 4

\* ------------------------------------------------------------------ C32
\* initializeBrokering got past its environment guard
BrokeringConfigured == app.isBrowserEnvironment /\ (app.cls = ECA => app.experimental)

\* C32: the broker and embeddedApp fields are never both set; once
\* initializeBrokering has run in a browser environment, the application is the
\* broker when actAsBroker is set and it is not in an iframe (allowBrokering set
\* or not), else an embedded client when allowBrokering is set, else neither.
C32_AtMostOneRole ==
    /\ ~(broker /\ embeddedApp)
    /\ initPromise = "notCalled" => ~broker /\ ~embeddedApp
    /\ (initPromise # "notCalled" /\ BrokeringConfigured) =>
        IF app.actAsBroker /\ ~app.isInIframe THEN broker /\ ~embeddedApp
        ELSE IF app.allowBrokering THEN embeddedApp /\ ~broker
        ELSE ~broker /\ ~embeddedApp
    /\ (initPromise # "notCalled" /\ ~BrokeringConfigured) => ~broker /\ ~embeddedApp

\* both flags set in the top frame: the application became the broker
C32_Witness ==
    /\ app.actAsBroker /\ app.allowBrokering /\ ~app.isInIframe
    /\ BrokeringConfigured
    /\ broker /\ ~embeddedApp
    /\ \E c \in ApiCalls : calls[c].pc = "done"

\* ------------------------------------------------------------------ C33
\* C33: the stored redirect completion is set whenever a call of
\* handleRedirectPromise is in flight, and empty once none is.
C33_CurrentSetExactlyWhileInFlight ==
    /\ PendingCalls # {} => currentBrokerRedirectResponse # 0
    /\ PendingCalls = {} => currentBrokerRedirectResponse = 0

\* ------------------------------------------------------------------ C34
\* C34: the Broker posts a handshake response only in reply to a message that
\* BrokerHandshakeRequest.validate accepts.
C34_HandshakeReplyOnlyToValidRequest ==
    \A r \in ReqIds :
        req[r].handshakeReply => validateTyped(req[r].msg, HANDSHAKE_REQUEST)

\* ------------------------------------------------------------------ C35
CountOf(seq, e) == Cardinality({i \in 1..Len(seq) : seq[i] = e})

\* C35: an acquireTokenSilent call that emitted ACQUIRE_TOKEN_START has emitted
\* exactly one of ACQUIRE_TOKEN_SUCCESS and ACQUIRE_TOKEN_FAILURE when its
\* promise has settled, also when the call was forwarded to the broker.
C35_StartThenOneSettleEvent ==
    \A c \in ApiCalls :
        (/\ calls[c].api = AcquireTokenSilent
         /\ calls[c].pc = "done"
         /\ CountOf(calls[c].events, "ACQUIRE_TOKEN_START") > 0) =>
            CountOf(calls[c].events, "ACQUIRE_TOKEN_SUCCESS")
                + CountOf(calls[c].events, "ACQUIRE_TOKEN_FAILURE") = 1

\* ------------------------------------------------------------------ C36
\* C36: ExperimentalClientApplication.acquireTokenSilent without an account in
\* the request and without an active account fails with the no-account error,
\* having emitted no event, read no cache, made no network call and sent no
\* message to the broker.
C36_NoAccountFailsFirst ==
    \A c \in ApiCalls :
        (/\ app.cls = ECA
         /\ calls[c].api = AcquireTokenSilent
         /\ ~calls[c].hasAccount) =>
            /\ calls[c].pc = "done" /\ calls[c].outcome = "noAccountError"
            /\ calls[c].events = <<>>
            /\ calls[c].local = <<>>
            /\ calls[c].sent = <<>>

\* the call was made by an application bonded to a broker
C36_Witness ==
    \E c \in ApiCalls :
        /\ app.cls = ECA /\ Bonded
        /\ calls[c].api = AcquireTokenSilent /\ ~calls[c].hasAccount
        /\ calls[c].outcome = "noAccountError"

\* ------------------------------------------------------------------ C37
\* C37: the refresh-token-binding key options, which getPublicKeyThumbprint uses
\* for stk_jwk keys, are after any sequence of operations what the constructor
\* made them, and every stk_jwk key is generated as an RSA-OAEP key.
C37_RtBindingKeyOptionsUnchanged ==
    /\ rtBindingKeyOptions = RtBindingKeyOptions
    /\ \A i \in 1..Len(cryptoLog) :
        (cryptoLog[i].op = "getPublicKeyThumbprint" /\ cryptoLog[i].arg = stk_jwk) =>
            cryptoLog[i].alg = RSA_OAEP

\* ------------------------------------------------------------------ C38
\* C38: when getPublicKeyThumbprint has resolved with a thumbprint, the key pair
\* is stored under it, and a signJwt or getAsymmetricPublicKey call made next
\* with that thumbprint finds the key pair.
C38_KeyPairStoredWhenThumbprintResolves ==
    \A i \in 1..Len(cryptoLog) :
        (cryptoLog[i].op = "getPublicKeyThumbprint" /\ cryptoLog[i].result \in Kids) =>
            /\ cryptoLog[i].stored
            /\ (/\ i < Len(cryptoLog)
                /\ cryptoLog[i + 1].op \in {"signJwt", "getAsymmetricPublicKey"}
                /\ cryptoLog[i + 1].arg = cryptoLog[i].result) =>
                    cryptoLog[i + 1].result = "ok"

\* ------------------------------------------------------------------ C39
\* C39: decryptBoundTokenResponse called with a request without stkJwk fails
\* with the missing-stk-kid error and leaves both key stores as they were.
C39_MissingStkKidNoEffect ==
    [][(/\ Len(cryptoLog') = Len(cryptoLog) + 1
        /\ cryptoLog'[Len(cryptoLog')].op = "decryptBoundTokenResponse"
        /\ cryptoLog'[Len(cryptoLog')].arg = "") =>
            /\ cryptoLog'[Len(cryptoLog')].result = "missingStkKidError"
            /\ asymmetricKeys' = asymmetricKeys
            /\ symmetricKeys' = symmetricKeys
            /\ pendingPuts' = pendingPuts]_vars

\* the call was made while both stores held keys
C39_Witness ==
    \E i \in 1..Len(cryptoLog) :
        /\ cryptoLog[i].op = "decryptBoundTokenResponse" /\ cryptoLog[i].arg = ""
        /\ cryptoLog[i].result = "missingStkKidError"
        /\ asymmetricKeys # {} /\ symmetricKeys # {}

====
